---------------------------- MODULE Spec2Model ----------------------------
(***************************************************************************)
(* A model of photo_utils (src/utils.py): the scan of a directory tree for *)
(* raw photo files, the pairing of each raw file with its XMP sidecar, the *)
(* extraction of the editorial flag, and the bulk move / delete by flag.   *)
(*                                                                         *)
(* Text (file names, label texts) is a sequence of one-character strings.  *)
(* A path is a record [dir, name]: dir is the sequence of directory names  *)
(* from the filesystem root, name is the file name.  Python's None is the  *)
(* string "None".                                                          *)
(***************************************************************************)
EXTENDS Integers, Sequences, FiniteSets, TLC

VARIABLES
    files,              \* the regular files on disk: path -> [data, ino]
    dirs,               \* the directories on disk (each a sequence of names)
    lsrev,              \* the order in which the filesystem lists a directory
    call,               \* the last operation called, with its arguments
    pre,                \* files and dirs as they were when that call started
    results,            \* analyze_photos: the aggregate counts of that call
    detailed_results,   \* analyze_photos: the buckets of that call
    handed,             \* the sidecars that call passed to parse_xmp_flag
    outcome,            \* how the call ended and what it printed
    flag                \* the value parse_xmp_flag returned (SpecFlag)

vars == <<files, dirs, lsrev, call, pre, results, detailed_results, handed,
          outcome, flag>>

---------------------------------------------------------------------------
(* Bounds of the model. *)

\* the largest number of files in an initial tree
MaxFiles == 4
\* the largest number of xmp:Label elements in a sidecar document (SpecFlag)
MaxLabels == 2
\* the largest number of rdf:Description elements in a sidecar document
MaxDescs == 2

---------------------------------------------------------------------------
(* Text. *)

None == "None"

Max(S) == CHOOSE x \in S : \A y \in S : y <= x
Min(S) == CHOOSE x \in S : \A y \in S : x <= y

UpperChars == <<"A","C","D","E","F","G","J","L","N","P","R","S","T","U","V","W","X">>
LowerChars == <<"a","c","d","e","f","g","j","l","n","p","r","s","t","u","v","w","x">>

\* str.lower() on one character
LowerChar(c) ==
    IF \E i \in 1..Len(UpperChars) : UpperChars[i] = c
    THEN LowerChars[CHOOSE i \in 1..Len(UpperChars) : UpperChars[i] = c]
    ELSE c

\* str.lower()
lower(text) == [i \in 1..Len(text) |-> LowerChar(text[i])]

Whitespace == {" ", "\t", "\n"}

\* str.strip(): drop the leading and the trailing whitespace
strip(text) ==
    LET Ink == {i \in 1..Len(text) : text[i] \notin Whitespace}
    IN  IF Ink = {} THEN <<>> ELSE SubSeq(text, Min(Ink), Max(Ink))

\* str.startswith()
startswith(text, prefix) ==
    /\ Len(prefix) <= Len(text)
    /\ SubSeq(text, 1, Len(prefix)) = prefix

\* str.rfind() of one character, 1-based; 0 when the character is absent
rfind(text, c) ==
    LET At == {i \in 1..Len(text) : text[i] = c}
    IN  IF At = {} THEN 0 ELSE Max(At)

---------------------------------------------------------------------------
(* pathlib. *)

\* PurePath.suffix: from the last dot, unless the dot leads or ends the name
suffix(name) ==
    LET i == rfind(name, ".")
    IN  IF 1 < i /\ i < Len(name) THEN SubSeq(name, i, Len(name)) ELSE <<>>

\* the name with its suffix old replaced by suf; appended when old is empty
replace_suffix(name, old, suf) ==
    IF old = <<>> THEN name \o suf
    ELSE SubSeq(name, 1, Len(name) - Len(old)) \o suf

\* PurePath.with_suffix()
with_suffix(path, suf) ==
    [path EXCEPT !.name = replace_suffix(path.name, suffix(path.name), suf)]

\* photo.parents[0].name: the name of the directory that holds the file
parent_name(path) == path.dir[Len(path.dir)]

\* None, where the program holds a path or None
NoPath == [dir |-> <<>>, name |-> <<>>]

\* Path.exists()
exists(path, fsys) == path \in DOMAIN fsys

\* Path.mkdir(parents=True, exist_ok=True): the directory and its ancestors
mkdir(d, dset) == dset \cup {SubSeq(d, 1, n) : n \in 1..Len(d)}

---------------------------------------------------------------------------
(* The content of a file, as far as the program reads it:                  *)
(*   size        st_size, in bytes                                         *)
(*   marker_end  the offset just past the first of the markers '<?xml',    *)
(*               '<x:xmpmeta', '<rdf:', 'xmlns' (in any letter case) in    *)
(*               the file, 0 when the file holds none of them              *)
(*   xml         what ET.parse makes of the file: wellformed or not, the   *)
(*               texts of the {http://ns.adobe.com/xap/1.0/}Label elements *)
(*               below the root in document order, and for each            *)
(*               rdf:Description element below the root the value of its   *)
(*               xmp:Label attribute (<<>> for a missing element text or   *)
(*               attribute: None and '' are both false in Python)          *)

\* st_size below which a sidecar is taken to be empty or truncated
MinSize == 10
\* the number of leading bytes is_valid_xmp_file reads
SniffBytes == 100

is_valid_xmp_file(xmp_file_path, fsys) ==
    IF \/ startswith(xmp_file_path.name, <<".", "_">>)
       \/ startswith(xmp_file_path.name, <<".">>)
    THEN FALSE
    \* stat() of a missing file raises OSError
    ELSE IF ~exists(xmp_file_path, fsys) THEN FALSE
    ELSE LET data == fsys[xmp_file_path].data
         IN  IF data.size < MinSize THEN FALSE
             \* a marker lies in the first SniffBytes bytes
             ELSE 0 < data.marker_end /\ data.marker_end <= SniffBytes

Xmp == <<".","x","m","p">>

\* lines 72-80: the first of the two candidates that exists and is valid
first_sidecar(xmp_sidecar, xmp_alt, fsys) ==
    IF exists(xmp_sidecar, fsys) /\ is_valid_xmp_file(xmp_sidecar, fsys)
    THEN xmp_sidecar
    ELSE IF exists(xmp_alt, fsys) /\ is_valid_xmp_file(xmp_alt, fsys)
    THEN xmp_alt
    ELSE NoPath

\* a mutant: the name without the raw extension is tried first
find_xmp_file_alt_first(raw_file_path, fsys) ==
    first_sidecar(with_suffix(raw_file_path, Xmp),
                  with_suffix(raw_file_path, suffix(raw_file_path.name) \o Xmp),
                  fsys)

\* the sidecar of a raw file, or NoPath
find_xmp_file(raw_file_path, fsys) ==
    first_sidecar(with_suffix(raw_file_path, suffix(raw_file_path.name) \o Xmp),
                  with_suffix(raw_file_path, Xmp),
                  fsys)

RedWords   == { <<"r","e","d">>, <<"r","e","j","e","c","t">> }
GreenWords == { <<"g","r","e","e","n">>, <<"a","p","p","r","o","v","e","d">>,
                <<"s","e","l","e","c","t">> }

\* lines 109-114 and 122-127: the flag of a normalized label, or None
word_flag(label_value) ==
    IF label_value \in RedWords THEN "red"
    ELSE IF label_value \in GreenWords THEN "green"
    ELSE None

\* lines 106 and 119: label_value = text.lower().strip()
label_flag(text) == word_flag(strip(lower(text)))

\* the loop over label texts: the first text that is non-empty and stands
\* for a flag ends it; any other text is passed over
RECURSIVE first_flag_from(_, _)
first_flag_from(texts, i) ==
    IF i > Len(texts) THEN None
    ELSE IF texts[i] # <<>> /\ label_flag(texts[i]) # None
         THEN label_flag(texts[i])
         ELSE first_flag_from(texts, i + 1)

\* a mutant: the first non-empty text decides, matching or not
first_flag_stops(texts) ==
    IF texts = <<>> THEN None
    ELSE IF Head(texts) # <<>> THEN label_flag(Head(texts))
         ELSE first_flag_from(texts, 2)

\* lines 102-114, and lines 117-127: one pass over a list of label texts
first_flag(texts) == first_flag_from(texts, 1)

\* the value returned at the first return statement reached
or_else(a, b) == IF a # None THEN a ELSE b

\* lines 96-127, the document parsed.  Both searches of lines 96 and 98 find
\* the Label elements of the XMP namespace: doc.labels.
\* The attributes of the rdf:Description elements are read only when there is
\* no Label element (line 100); the loop of line 117 then has nothing to do.
flag_of_doc(doc) ==
    or_else(IF doc.labels = <<>> THEN first_flag(doc.descs) ELSE None,
            first_flag(doc.labels))

parse_xmp_flag(xmp_file_path, fsys) ==
    IF ~is_valid_xmp_file(xmp_file_path, fsys) THEN None
    \* ET.ParseError is caught, None is returned
    ELSE IF ~fsys[xmp_file_path].data.xml.wellformed THEN None
    ELSE flag_of_doc(fsys[xmp_file_path].data.xml)

---------------------------------------------------------------------------
(* The scan. *)

raw_extensions == { <<".","c","r","2">>, <<".","c","r","3">>,
                    <<".","n","e","f">>, <<".","a","r","w">> }

\* The order in which a directory lists its entries is the filesystem's.
\* The model lists them by their place in these two sequences, forwards or
\* (lsrev) backwards.
NameListing == << <<".","b",".","c","r","2">>,
                  <<".","b",".","c","r","2",".","x","m","p">>,
                  <<"a",".","c","r","2">>,
                  <<"a",".","c","r","2",".","x","m","p">>,
                  <<"a",".","x","m","p">>,
                  <<"a",".","N","E","F">>,
                  <<"a",".","a","r","w">>,
                  <<"n","o","t","e","s">> >>
DirListing == <<"D", "E", "s", "t">>

NameRank(name) == CHOOSE i \in 1..Len(NameListing) : NameListing[i] = name
DirRank(d)     == CHOOSE i \in 1..Len(DirListing) : DirListing[i] = d

RECURSIVE ascending(_)
ascending(S) == IF S = {} THEN <<>>
                ELSE <<Min(S)>> \o ascending(S \ {Min(S)})

reversed(s) == [i \in 1..Len(s) |-> s[Len(s) + 1 - i]]

listed(ranks, rev) == IF rev THEN reversed(ascending(ranks)) ELSE ascending(ranks)

\* the files of directory top, in the order it lists them
files_of(top, fsys, rev) ==
    LET here == listed({NameRank(p.name) : p \in {q \in DOMAIN fsys : q.dir = top}}, rev)
    IN  [i \in 1..Len(here) |-> [dir |-> top, name |-> NameListing[here[i]]]]

\* the subdirectories of directory top, in the order it lists them
subdirs_of(top, dset, rev) ==
    LET subs == listed({DirRank(d[Len(d)]) :
                          d \in {e \in dset : /\ Len(e) = Len(top) + 1
                                              /\ SubSeq(e, 1, Len(top)) = top}}, rev)
    IN  [i \in 1..Len(subs) |-> Append(top, DirListing[subs[i]])]

\* os.walk(top), top-down: the files of a directory as it lists them, then
\* each of its subdirectories in turn; the result is every file path in the
\* order the loops of find_raw_files meet them
RECURSIVE walk(_, _, _, _)
RECURSIVE walk_each(_, _, _, _)
walk(top, fsys, dset, rev) ==
    IF top \notin dset THEN <<>>
    ELSE files_of(top, fsys, rev) \o walk_each(subdirs_of(top, dset, rev), fsys, dset, rev)
walk_each(subs, fsys, dset, rev) ==
    IF subs = <<>> THEN <<>>
    ELSE walk(Head(subs), fsys, dset, rev) \o walk_each(Tail(subs), fsys, dset, rev)

\* line 24: the file's suffix, lowercased, is a raw extension
is_raw(file) == lower(suffix(file)) \in raw_extensions

find_raw_files(selected_dir, fsys, dset, rev) ==
    LET keep(p) == is_raw(p.name)
    IN  SelectSeq(walk(selected_dir, fsys, dset, rev), keep)

---------------------------------------------------------------------------
(* The classification. *)

Flags == {"red", "green", "unflagged"}

ZeroResults == [red |-> 0, green |-> 0, unflagged |-> 0,
                total_files |-> 0, skipped_no_xmp |-> 0]

\* defaultdict(list): no key yet
EmptyBuckets == [k \in {} |-> <<>>]

\* a mutant: the buckets of the call before are kept
StaleBuckets == detailed_results

\* line 154: detailed_results = defaultdict(list)
NewBuckets == EmptyBuckets

\* defaultdict(list)[key]
bucket(d, key) == IF key \in DOMAIN d THEN d[key] ELSE <<>>

\* defaultdict(list)[key].extend(items)
extend(d, key, items) ==
    [k \in DOMAIN d \cup {key} |-> IF k = key THEN bucket(d, key) \o items ELSE d[k]]

\* a mutant: the raw file alone is put in the bucket
tally_raw_only(acc, raw_file, xmp_file, f) ==
    [acc EXCEPT !.results[f] = @ + 1,
                !.detailed = extend(@, f, <<raw_file>>)]

\* lines 165-173: count the pair under f and put it in the bucket of f
tally(acc, raw_file, xmp_file, f) ==
    [acc EXCEPT !.results[f] = @ + 1,
                !.detailed = extend(@, f, <<raw_file, xmp_file>>)]

\* lines 165-171: the bucket of a value parse_xmp_flag returned
flag_key(f) == IF f = "red" THEN "red" ELSE IF f = "green" THEN "green" ELSE "unflagged"

\* a mutant: a raw file without sidecar is not counted
classify_pair_no_skip_count(acc, raw_file, xmp_file, fsys) ==
    IF xmp_file # NoPath
    THEN tally([acc EXCEPT !.results.total_files = @ + 1, !.handed = Append(@, xmp_file)],
               raw_file, xmp_file, flag_key(parse_xmp_flag(xmp_file, fsys)))
    ELSE acc

\* lines 162-175: the raw file with what find_xmp_file returned for it
classify_pair(acc, raw_file, xmp_file, fsys) ==
    IF xmp_file # NoPath
    THEN tally([acc EXCEPT !.results.total_files = @ + 1, !.handed = Append(@, xmp_file)],
               raw_file, xmp_file, flag_key(parse_xmp_flag(xmp_file, fsys)))
    ELSE [acc EXCEPT !.results.skipped_no_xmp = @ + 1]

\* lines 159-175: the loop of analyze_photos
RECURSIVE classify_from(_, _, _, _)
classify_from(acc, raw_files, i, fsys) ==
    IF i > Len(raw_files) THEN acc
    ELSE classify_from(classify_pair(acc, raw_files[i], find_xmp_file(raw_files[i], fsys), fsys),
                       raw_files, i + 1, fsys)

\* lines 146-177, the raw files found
analyze_files(raw_files, fsys) ==
    classify_from([results |-> ZeroResults, detailed |-> NewBuckets,
                   handed |-> <<>>, found |-> Len(raw_files)],
                  raw_files, 1, fsys)

\* results and detailed_results, with the number of raw files found (printed
\* at line 156) and the sidecars passed to parse_xmp_flag
analyze_photos(directory, fsys, dset, rev) ==
    analyze_files(find_raw_files(directory, fsys, dset, rev), fsys)

---------------------------------------------------------------------------
(* Moving and deleting. *)

\* lines 189-191: dir_name / photo.name, dir_name being the destination
\* directory extended by the name of the directory that holds the photo
dest_path(destination_dir, photo) ==
    [dir |-> Append(destination_dir, parent_name(photo)), name |-> photo.name]

\* shutil.move(src, dst) of a regular file onto a path that is no directory:
\* os.rename, which replaces a file at dst and does nothing when src is dst
shutil_move(fsys, src, dst) ==
    IF src = dst THEN fsys
    ELSE [p \in (DOMAIN fsys \ {src}) \cup {dst} |->
             IF p = dst THEN fsys[src] ELSE fsys[p]]

\* Path.unlink() of an existing file
unlink(fsys, photo) == [p \in DOMAIN fsys \ {photo} |-> fsys[p]]

\* lines 189-191: one turn of the loop.  The directory is made first; the
\* move of a missing file raises FileNotFoundError.
move_one(st, photo, dst) ==
    IF ~exists(photo, st.files)
    THEN [st EXCEPT !.dirs = mkdir(dst.dir, @), !.status = "error"]
    ELSE [st EXCEPT !.dirs = mkdir(dst.dir, @),
                    !.files = shutil_move(@, photo, dst)]

\* lines 187-191: the loop over target_photos.  Nothing catches what a move
\* raises: the loop ends there.
RECURSIVE move_from(_, _, _, _)
move_from(st, target_photos, i, destination_dir) ==
    IF i > Len(target_photos) \/ st.status = "error" THEN st
    ELSE move_from(move_one(st, target_photos[i], dest_path(destination_dir, target_photos[i])),
                   target_photos, i + 1, destination_dir)

\* line 200: unlink of a missing file raises FileNotFoundError
unlink_one(st, photo) ==
    IF ~exists(photo, st.files)
    THEN [st EXCEPT !.status = "error"]
    ELSE [st EXCEPT !.files = unlink(@, photo)]

\* lines 199-200: the loop over target_photos.  Nothing catches what unlink
\* raises: the loop ends there.
RECURSIVE unlink_from(_, _, _)
unlink_from(st, target_photos, i) ==
    IF i > Len(target_photos) \/ st.status = "error" THEN st
    ELSE unlink_from(unlink_one(st, target_photos[i]), target_photos, i + 1)

\* where a call starts: the filesystem, and what analyze_photos returned
started(fsys, dset, analysis) ==
    [files |-> fsys, dirs |-> dset, status |-> "ok", analysis |-> analysis]

\* lines 185-191
move_bucket(st, f, destination_dir) ==
    move_from(st, bucket(st.analysis.detailed, f), 1, destination_dir)

\* lines 196-200
unlink_bucket(st, f, simulate) ==
    IF ~simulate THEN unlink_from(st, bucket(st.analysis.detailed, f), 1) ELSE st

\* the filesystem after move_by_flag_and_copy_dir_structure, how it ended,
\* and what its call of analyze_photos returned
move_by_flag_and_copy_dir_structure(source_dir, f, destination_dir, fsys, dset, rev) ==
    move_bucket(started(fsys, dset, analyze_photos(source_dir, fsys, dset, rev)),
                f, destination_dir)

\* the filesystem after delete_by_flag, how it ended, and what its call of
\* analyze_photos returned
delete_by_flag(source_dir, f, simulate, fsys, dset, rev) ==
    unlink_bucket(started(fsys, dset, analyze_photos(source_dir, fsys, dset, rev)),
                  f, simulate)

---------------------------------------------------------------------------
(* The trees the model starts from. *)

SourceDir == <<"D">>
\* the destination of a move: a directory outside the source tree
DestDirs == { <<"E">> }

SubS  == <<"D", "s">>
SubTS == <<"D", "t", "s">>

A_cr2     == <<"a",".","c","r","2">>
A_NEF     == <<"a",".","N","E","F">>
A_arw     == <<"a",".","a","r","w">>
A_cr2_xmp == <<"a",".","c","r","2",".","x","m","p">>
A_xmp     == <<"a",".","x","m","p">>
B_hidden     == <<".","b",".","c","r","2">>
B_hidden_xmp == <<".","b",".","c","r","2",".","x","m","p">>
Notes     == <<"n","o","t","e","s">>

File(d, n) == [dir |-> d, name |-> n]

\* the paths the trees of the scan are drawn from
ScanPaths ==
    {File(SubS, n) : n \in {A_cr2, A_NEF, A_arw, A_cr2_xmp, A_xmp}}
    \cup {File(SubTS, n) : n \in {A_cr2, A_xmp}}
    \cup {File(SourceDir, n) : n \in {B_hidden, B_hidden_xmp, Notes}}

\* the paths the trees of the operations are drawn from
TreePaths ==
    {File(SubS, n) : n \in {A_cr2, A_NEF, A_arw, A_cr2_xmp, A_xmp}}
    \cup {File(SubTS, n) : n \in {A_cr2, A_xmp}}

Doc(labels, descs) == [wellformed |-> TRUE, labels |-> labels, descs |-> descs]
NoDoc == [wellformed |-> FALSE, labels |-> <<>>, descs |-> <<>>]

\* a raw image, or any file that is no XML
Opaque == [size |-> 300, marker_end |-> 0, xml |-> NoDoc]

XRed       == [size |-> 300, marker_end |-> 5, xml |-> Doc(<< <<"R","e","d">> >>, <<>>)]
XGreenAttr == [size |-> 300, marker_end |-> 5, xml |-> Doc(<<>>, << <<"S","e","l","e","c","t">> >>)]
XMalformed == [size |-> 300, marker_end |-> 5, xml |-> NoDoc]
XTiny      == [size |-> 5,   marker_end |-> 5, xml |-> Doc(<< <<"R","e","d">> >>, <<>>)]
XLate      == [size |-> 300, marker_end |-> 150, xml |-> Doc(<< <<"R","e","d">> >>, <<>>)]

\* the contents of the sidecars of the scan: two that carry a flag, one that
\* does not parse, and three that fail validation (by size, for want of a
\* marker, for a marker past the bytes read)
SidecarData == {XRed, XGreenAttr, XMalformed, XTiny, Opaque, XLate}

NoCall == [name |-> "none", flag |-> None, dest |-> <<>>, simulate |-> FALSE, repeat |-> FALSE]

InitRest ==
    /\ call = NoCall
    /\ pre = [files |-> files, dirs |-> dirs]
    /\ results = ZeroResults
    /\ detailed_results = EmptyBuckets
    /\ handed = <<>>
    /\ outcome = [status |-> "none", count |-> 0]
    /\ flag = None

\* a tree of at most MaxFiles files under SourceDir drawn from paths, the
\* content of each .xmp file drawn from kinds
InitTree(paths, kinds) ==
    \E So \in SUBSET {p \in paths : suffix(p.name) # Xmp},
       Sx \in SUBSET {p \in paths : suffix(p.name) = Xmp} :
        /\ Cardinality(So) + Cardinality(Sx) <= MaxFiles
        /\ \E d \in [Sx -> kinds] :
              files = [p \in So \cup Sx |->
                         [data |-> IF p \in Sx THEN d[p] ELSE Opaque, ino |-> p]]
        /\ dirs = UNION {mkdir(p.dir, {}) : p \in So \cup Sx \cup {File(SourceDir, <<>>)}}

\* the trees the operations are checked on
Init ==
    /\ InitTree(TreePaths, {XRed, XGreenAttr})
    /\ lsrev \in BOOLEAN
    /\ InitRest

\* the trees the scan is checked on: every kind of sidecar content, both
\* listing orders
InitScan ==
    /\ InitTree(ScanPaths, SidecarData)
    /\ lsrev \in BOOLEAN
    /\ InitRest

---------------------------------------------------------------------------
(* The operations. *)

\* what a call leaves: the filesystem, how it ended, the count it printed,
\* and what its analyze_photos returned
Ends(c, post, count) ==
    /\ call' = c
    /\ pre' = [files |-> files, dirs |-> dirs]
    /\ results' = post.analysis.results
    /\ detailed_results' = post.analysis.detailed
    /\ handed' = post.analysis.handed
    /\ files' = post.files
    /\ dirs' = post.dirs
    /\ outcome' = [status |-> post.status, count |-> IF post.status = "ok" THEN count ELSE 0]
    /\ UNCHANGED <<lsrev, flag>>

\* classify(D): analyze_photos(D).  Line 156 prints the number of raw files.
Classify ==
    Ends([NoCall EXCEPT !.name = "classify", !.repeat = (call.name = "classify")],
         started(files, dirs, analyze_photos(SourceDir, files, dirs, lsrev)),
         results'.total_files + results'.skipped_no_xmp)

\* relocate(source=D, flag=f, destination=E).  Line 186 prints the number of
\* entries to move, before the loop.
Relocate(f, destination_dir) ==
    Ends([NoCall EXCEPT !.name = "relocate", !.flag = f, !.dest = destination_dir],
         move_by_flag_and_copy_dir_structure(SourceDir, f, destination_dir, files, dirs, lsrev),
         Len(bucket(detailed_results', f)))

\* remove(source=D, flag=f, simulate).  Lines 202 and 204 print
\* len(target_photos)/2, reached only when no unlink raised; a bucket holds
\* pairs, so the division is exact.
Remove(f, simulate) ==
    Ends([NoCall EXCEPT !.name = "remove", !.flag = f, !.simulate = simulate],
         delete_by_flag(SourceDir, f, simulate, files, dirs, lsrev),
         Len(bucket(detailed_results', f)) \div 2)

Next ==
    \/ Classify
    \/ \E f \in Flags, e \in DestDirs : Relocate(f, e)
    \/ \E f \in Flags, sim \in BOOLEAN : Remove(f, sim)

Spec == Init /\ [][Next]_vars

\* the scan alone, on the richer family of trees
NextScan == Classify

SpecScan == InitScan /\ [][NextScan]_vars

---------------------------------------------------------------------------
(* parse_xmp_flag alone, on one sidecar whose document is drawn from every  *)
(* list of at most MaxLabels Label elements and at most MaxDescs           *)
(* rdf:Description elements over LabelTexts.                               *)

LabelTexts == { <<"R","e","d">>,
                <<" ","r","e","j","e","c","t","\n">>,
                <<"G","R","E","E","N">>,
                <<"A","p","p","r","o","v","e","d">>,
                <<"s","e","l","e","c","t">>,
                <<"P","u","r","p","l","e">>,
                <<>> }

SeqUpTo(S, n) == UNION {[1..k -> S] : k \in 0..n}

FlagPath == File(SubS, A_xmp)

InitFlag ==
    /\ \E data \in {[size |-> 300, marker_end |-> 5, xml |-> Doc(l, d)] :
                       l \in SeqUpTo(LabelTexts, MaxLabels),
                       d \in SeqUpTo(LabelTexts, MaxDescs)}
                   \cup {XMalformed, XTiny, XLate, Opaque} :
          files = [p \in {FlagPath} |-> [data |-> data, ino |-> p]]
    /\ dirs = mkdir(SubS, {})
    /\ lsrev = FALSE
    /\ InitRest

\* flag = parse_xmp_flag(xmp_file)
ParseFlag ==
    /\ flag' = parse_xmp_flag(FlagPath, files)
    /\ call' = [NoCall EXCEPT !.name = "parse_xmp_flag"]
    /\ UNCHANGED <<files, dirs, lsrev, pre, results, detailed_results, handed, outcome>>

NextFlag == ParseFlag

SpecFlag == InitFlag /\ [][NextFlag]_vars

---------------------------------------------------------------------------
(* What the claims speak of, said without the program's operators. *)

\* a text, lowercased and stripped, is exactly one of the words
Matches(text, words) == strip(lower(text)) \in words

\* the flag of the first text of a list that is a red or a green word;
\* None when no text is
FirstMatching(texts) ==
    LET hits == {i \in 1..Len(texts) : Matches(texts[i], RedWords \cup GreenWords)}
    IN  IF hits = {} THEN None
        ELSE IF Matches(texts[Min(hits)], RedWords) THEN "red" ELSE "green"

\* the sidecar of SpecFlag: valid and parseable
FlagDoc == files[FlagPath].data.xml
FlagSidecarValid ==
    /\ files[FlagPath].data.size >= 10
    /\ files[FlagPath].data.marker_end \in 1..100
    /\ FlagDoc.wellformed

\* C4, as claimed: the flag extracted from a valid, parseable sidecar is that
\* of the first matching candidate among all xmp:Label elements followed by
\* all xmp:Label attributes of rdf:Description elements; None (unflagged)
\* when none matches.
C4_ElementsThenAttributes ==
    (call.name = "parse_xmp_flag" /\ FlagSidecarValid)
        => flag = FirstMatching(FlagDoc.labels \o FlagDoc.descs)

\* C4, amended: the candidates are the xmp:Label elements when the document
\* has any, and the xmp:Label attributes of rdf:Description elements only
\* when it has no xmp:Label element at all; the flag is that of the first
\* matching candidate, a non-matching one being passed over; None
\* (unflagged) when none matches.
C4_ElementsElseAttributes ==
    (call.name = "parse_xmp_flag" /\ FlagSidecarValid)
        => flag = FirstMatching(IF FlagDoc.labels # <<>> THEN FlagDoc.labels
                                ELSE FlagDoc.descs)

\* C4, its case: a matching candidate after a non-matching one decides
C4_Witness ==
    /\ call.name = "parse_xmp_flag"
    /\ FlagSidecarValid
    /\ Len(FlagDoc.labels) = 2
    /\ FlagDoc.labels[1] = <<"P","u","r","p","l","e">>
    /\ FlagDoc.labels[2] = <<"s","e","l","e","c","t">>
    /\ flag = "green"

---------------------------------------------------------------------------
(* The scan and the classification, as the claims state them.  All of it   *)
(* is read off pre, the filesystem when the call started.                  *)

\* the call ran analyze_photos
Analysed == call.name \in {"classify", "relocate", "remove"}

IsUnder(p, d) == Len(p.dir) >= Len(d) /\ SubSeq(p.dir, 1, Len(d)) = d

\* the name ends in one of the four raw extensions, in any letter case, and
\* has something before it
HasRawExtension(name) ==
    /\ Len(name) > 4
    /\ lower(SubSeq(name, Len(name) - 3, Len(name))) \in raw_extensions

\* the raw files of the source tree
RawFound == {p \in DOMAIN pre.files : IsUnder(p, SourceDir) /\ HasRawExtension(p.name)}

\* the two sidecar candidates of a raw file
Appended(R) == [R EXCEPT !.name = @ \o Xmp]
Replaced(R) == [R EXCEPT !.name = SubSeq(@, 1, Len(@) - 4) \o Xmp]

\* the candidate exists and passes SidecarValidator
Qualifies(c) ==
    /\ c \in DOMAIN pre.files
    /\ c.name[1] # "."
    /\ pre.files[c].data.size >= 10
    /\ pre.files[c].data.marker_end \in 1..100

\* the appended form when it qualifies, else the replaced form when it
\* qualifies, else none
Resolved(R) ==
    IF Qualifies(Appended(R)) THEN Appended(R)
    ELSE IF Qualifies(Replaced(R)) THEN Replaced(R)
    ELSE NoPath

\* the places of a path in the buckets
Places(x) == {fi \in Flags \X (1..(2 * Cardinality(DOMAIN pre.files))) :
                /\ fi[2] <= Len(bucket(detailed_results, fi[1]))
                /\ bucket(detailed_results, fi[1])[fi[2]] = x}

Skipped == {R \in RawFound : Resolved(R) = NoPath}

\* C1: every raw file found is in exactly one of the red, green and
\* unflagged buckets, or is skipped and in none; it is skipped exactly when
\* neither sidecar candidate exists and passes validation; a raw file whose
\* sidecar resolves but does not parse is in the unflagged bucket;
\* red + green + unflagged = total_files, and total_files + skipped_no_xmp
\* is the number of raw files found.
C1_FourOutcomes ==
    Analysed =>
        /\ \A R \in RawFound :
             IF R \in Skipped THEN Places(R) = {}
             ELSE /\ Cardinality(Places(R)) = 1
                  /\ ~pre.files[Resolved(R)].data.xml.wellformed
                        => \E i \in 1..Len(bucket(detailed_results, "unflagged")) :
                              bucket(detailed_results, "unflagged")[i] = R
        /\ results.skipped_no_xmp = Cardinality(Skipped)
        /\ results.red + results.green + results.unflagged = results.total_files
        /\ results.total_files + results.skipped_no_xmp = Cardinality(RawFound)

\* C1, its case: one raw file skipped, another bucketed as unflagged on a
\* sidecar that does not parse
C1_Witness ==
    /\ call.name = "classify"
    /\ Skipped # {}
    /\ \E R \in RawFound \ Skipped :
         /\ ~pre.files[Resolved(R)].data.xml.wellformed
         /\ Places(R) # {}

\* the place of a raw file in the order of discovery
Discovered(R) ==
    CHOOSE i \in 1..Len(find_raw_files(SourceDir, pre.files, pre.dirs, lsrev)) :
        find_raw_files(SourceDir, pre.files, pre.dirs, lsrev)[i] = R

\* b is a list of (raw file, its resolved sidecar) pairs, the raw files in
\* the order of discovery
PairsInOrder(b) ==
    /\ Len(b) % 2 = 0
    /\ \A k \in 1..(Len(b) \div 2) :
         /\ b[2 * k - 1] \in RawFound
         /\ b[2 * k] # NoPath
         /\ b[2 * k] = Resolved(b[2 * k - 1])
         /\ k > 1 => Discovered(b[2 * k - 3]) < Discovered(b[2 * k - 1])

\* C2: every bucket has even length, is a concatenation of (raw file, its
\* resolved sidecar) pairs in the order the raw files were discovered, and is
\* twice as long as the count reported for its flag.
C2_BucketsOfPairs ==
    Analysed =>
        /\ DOMAIN detailed_results \subseteq Flags
        /\ \A f \in Flags :
             /\ PairsInOrder(bucket(detailed_results, f))
             /\ Len(bucket(detailed_results, f)) = 2 * results[f]

\* C2, its case: a bucket of two pairs
C2_Witness ==
    /\ call.name = "classify"
    /\ \E f \in Flags : Len(bucket(detailed_results, f)) = 4

\* C3: the resolver returns the appended-form candidate whenever it exists
\* and is valid, even if the replaced form is valid too; the replaced form
\* only when the appended form does not qualify and the replaced form does;
\* none otherwise.  No sidecar that fails validation is handed to the flag
\* extractor, and a raw file without qualifying candidate is in no bucket and
\* counted as skipped.
C3_AppendedFormWins ==
    Analysed =>
        /\ \A R \in RawFound : find_xmp_file(R, pre.files) = Resolved(R)
        /\ \A i \in 1..Len(handed) : Qualifies(handed[i])
        /\ \A R \in Skipped : Places(R) = {}
        /\ results.skipped_no_xmp = Cardinality(Skipped)

\* C3, its case: both candidates of a raw file qualify, and the appended one
\* was handed to the flag extractor
C3_Witness ==
    /\ call.name = "classify"
    /\ \E R \in RawFound :
         /\ Qualifies(Appended(R))
         /\ Qualifies(Replaced(R))
         /\ \E i \in 1..Len(handed) : handed[i] = Appended(R)
         /\ \A i \in 1..Len(handed) : handed[i] # Replaced(R)

\* C9: classify changes nothing on disk, and a classify right after a
\* classify returns the same counts and the same buckets.
C9_ClassifyIdempotent ==
    [][call'.name = "classify" =>
          /\ files' = files
          /\ dirs' = dirs
          /\ call.name = "classify" =>
                /\ results' = results
                /\ detailed_results' = detailed_results]_vars

\* C9, its case: a second classify in a row, of a tree with something to
\* bucket and something to skip
C9_Witness ==
    /\ call.name = "classify"
    /\ call.repeat
    /\ results.total_files >= 1
    /\ results.skipped_no_xmp >= 1

---------------------------------------------------------------------------
(* Moving and deleting, as the claims state them. *)

\* the bucket of the flag the call was given, as computed when it started
Target == bucket(detailed_results, call.flag)

\* where relocate is to put an entry of the bucket
Destination(e) == [dir |-> Append(call.dest, e.dir[Len(e.dir)]), name |-> e.name]

\* C8, as claimed: a sidecar path appears at most once across all buckets.
C8_SidecarOfOneRawFile ==
    Analysed =>
        \A f \in Flags, g \in Flags :
            \A k \in 1..(Len(bucket(detailed_results, f)) \div 2),
               l \in 1..(Len(bucket(detailed_results, g)) \div 2) :
                bucket(detailed_results, f)[2 * k] = bucket(detailed_results, g)[2 * l]
                    => (f = g /\ k = l)

\* C5, as claimed: after a relocate that completes, every entry of the bucket
\* is at destination/<name of its parent directory>/<its name>, that
\* directory exists, the entry is no longer at its source path, and every
\* other file of the source tree is where and as it was.
C5_RelocatedWithParentName ==
    (call.name = "relocate" /\ outcome.status = "ok") =>
        /\ \A i \in 1..Len(Target) :
             /\ Destination(Target[i]) \in DOMAIN files
             /\ files[Destination(Target[i])].ino = pre.files[Target[i]].ino
             /\ Destination(Target[i]).dir \in dirs
             /\ Target[i] \notin DOMAIN files
        /\ \A p \in DOMAIN pre.files :
             (IsUnder(p, SourceDir) /\ \A i \in 1..Len(Target) : Target[i] # p)
                => (p \in DOMAIN files /\ files[p] = pre.files[p])

\* C10, as claimed: when the destination is outside the source tree and held
\* no file, distinct entries of the bucket go to distinct paths, and after a
\* relocate that completes the destination holds as many files as the bucket
\* has entries.
C10_RelocateLosesNoFile ==
    (/\ call.name = "relocate"
     /\ outcome.status = "ok"
     /\ ~IsUnder([dir |-> call.dest], SourceDir)
     /\ \A p \in DOMAIN pre.files : ~IsUnder(p, call.dest)) =>
        /\ \A i \in 1..Len(Target), j \in 1..Len(Target) :
             Target[i] # Target[j] => Destination(Target[i]) # Destination(Target[j])
        /\ Cardinality({p \in DOMAIN files : IsUnder(p, call.dest)}) = Len(Target)

\* the files left by remove(simulate=false) on the tree the call started from
RealRun == delete_by_flag(SourceDir, call.flag, FALSE, pre.files, pre.dirs, lsrev).files

\* C6, as claimed: remove with simulate=true changes nothing on disk, and
\* the count it reports is the number of pairs of the bucket that a real run
\* on the same tree deletes.
C6_SimulateReportsRealRun ==
    (call.name = "remove" /\ call.simulate) =>
        /\ files = pre.files
        /\ dirs = pre.dirs
        /\ outcome.count =
             Cardinality({k \in 1..(Len(Target) \div 2) :
                             /\ Target[2 * k - 1] \notin DOMAIN RealRun
                             /\ Target[2 * k] \notin DOMAIN RealRun})

\* C7, as claimed: after remove with simulate=false every file of the bucket
\* is deleted (each was on disk when the call started, so its own deletion
\* can succeed), and a deletion that failed shows as an error.
C7_DeletionGoesOn ==
    (call.name = "remove" /\ ~call.simulate) =>
        /\ \A i \in 1..Len(Target) : Target[i] \notin DOMAIN files
        /\ (\E i \in 1..Len(Target), j \in 1..Len(Target) : i # j /\ Target[i] = Target[j])
              => outcome.status = "error"

===========================================================================
